---- MODULE Spec2Model ----
(***************************************************************************)
(* A model of project_to_xml.py: the Patch Applier                         *)
(* (update_project_from_xml), the Content Cleaner (clean_content), the      *)
(* Snapshot Builder (create_project_xml), the Ignore-Rule Set               *)
(* (load_ignore_spec) and the Binary Detector (is_binary).                  *)
(*                                                                         *)
(* Text is a sequence of characters.  A "character" of the model is a TLA+  *)
(* string that the code never looks inside: one real character ("/", "."),  *)
(* or a run of letters that no operation of the code splits ("keep").       *)
(* Paths are POSIX paths (os.path is posixpath).                            *)
(***************************************************************************)
EXTENDS Integers, Sequences, FiniteSets, TLC

VARIABLES
    full_content,   \* the text of the update file, as a sequence of tokens
    root_dir,       \* the project root the running operation was given
    fs,             \* the filesystem: [dirs: set of paths, files: path -> node]
    fsStart,        \* history: fs when update_project_from_xml was entered
    fsPrev,         \* history: fs before the entry processed last
    pc,             \* position of the running operation
    entries,        \* root.findall('file') of the parsed document
    idx,            \* number of entries the loop has processed
    file_count,     \* the applier's count of updated files
    log,            \* what was printed, one record per diagnostic
    ops,            \* history: the filesystem mutations performed, in order
    faults,         \* environment: the (operation, path) pairs that raise OSError
    spec,           \* the ignore patterns load_ignore_spec compiled, in order
    pending,        \* os.walk: directories still to be listed
    visited,        \* history: the directories os.walk has listed
    xml_parts,      \* the snapshot's entries so far
    output,         \* the snapshot file as written, a sequence of tokens
    runs            \* clean_content applied repeatedly: <<x, clean(x), ...>>

vars == <<full_content, root_dir, fs, fsStart, fsPrev, pc, entries, idx,
          file_count, log, ops, faults, spec, pending,
          visited, xml_parts, output, runs>>

(***************************************************************************)
(* Bounds of the model.                                                     *)
(***************************************************************************)
MaxEntries == 3
MaxFaultEntries == 2
MaxPatterns == 2
MaxCustom == 1
MaxLexemes == 4

(***************************************************************************)
(* Strings.                                                                 *)
(***************************************************************************)
Last(s) == s[Len(s)]

Front(s) == SubSeq(s, 1, Len(s) - 1)

\* str.startswith
startswith(s, prefix) ==
    Len(prefix) <= Len(s) /\ SubSeq(s, 1, Len(prefix)) = prefix

\* str.lstrip(chars)
RECURSIVE lstrip(_, _)
lstrip(s, chars) ==
    IF s # <<>> /\ Head(s) \in chars THEN lstrip(Tail(s), chars) ELSE s

\* str.rstrip(chars)
RECURSIVE rstrip(_, _)
rstrip(s, chars) ==
    IF s # <<>> /\ Last(s) \in chars THEN rstrip(Front(s), chars) ELSE s

\* str.split(sep) for a one-character separator: never an empty list
RECURSIVE split(_, _)
split(s, sep) ==
    IF s = <<>> THEN << <<>> >>
    ELSE LET r == split(Tail(s), sep) IN
         IF Head(s) = sep THEN << <<>> >> \o r
         ELSE << <<Head(s)>> \o Head(r) >> \o Tail(r)

\* sep.join(parts)
RECURSIVE join(_, _)
join(parts, sep) ==
    IF parts = <<>> THEN <<>>
    ELSE IF Len(parts) = 1 THEN Head(parts)
    ELSE Head(parts) \o sep \o join(Tail(parts), sep)

\* str.lower, on the letters the model's attribute values use
LowerChar(c) ==
    CASE c = "T" -> "t"
      [] c = "R" -> "r"
      [] c = "U" -> "u"
      [] c = "E" -> "e"
      [] OTHER -> c

lower(s) == [i \in 1..Len(s) |-> LowerChar(s[i])]

(***************************************************************************)
(* os.path (posixpath).                                                     *)
(***************************************************************************)
DotDot == <<".", ".">>

\* the loop of posixpath.normpath for a path with one leading slash
RECURSIVE NormComps(_, _)
NormComps(comps, new_comps) ==
    IF comps = <<>> THEN new_comps
    ELSE LET comp == Head(comps) IN
         IF comp = <<>> \/ comp = <<".">>
         THEN NormComps(Tail(comps), new_comps)
         ELSE IF comp # DotDot
                 \/ (new_comps # <<>> /\ Last(new_comps) = DotDot)
         THEN NormComps(Tail(comps), Append(new_comps, comp))
         ELSE IF new_comps # <<>>
         THEN NormComps(Tail(comps), Front(new_comps))
         ELSE NormComps(Tail(comps), new_comps)

\* os.path.abspath of an absolute path: posixpath.normpath
abspath(path) == <<"/">> \o join(NormComps(split(path, "/"), <<>>), <<"/">>)

\* os.path.join(a, b)
path_join(a, b) ==
    IF startswith(b, <<"/">>) THEN b
    ELSE IF a = <<>> \/ Last(a) = "/" THEN a \o b
    ELSE a \o <<"/">> \o b

\* the largest i with path[i] = "/", 0 when there is none (str.rfind + 1)
RECURSIVE rfind_slash(_)
rfind_slash(path) ==
    IF path = <<>> THEN 0
    ELSE IF Last(path) = "/" THEN Len(path)
    ELSE rfind_slash(Front(path))

\* os.path.dirname
dirname(path) ==
    LET head == SubSeq(path, 1, rfind_slash(path)) IN
    IF head # <<>> /\ rstrip(head, {"/"}) # <<>> THEN rstrip(head, {"/"})
    ELSE head

\* path is start, or lies below it, compared component-wise
Within(path, start) ==
    path = start \/ startswith(path, start \o <<"/">>)

(***************************************************************************)
(* The filesystem.                                                          *)
(***************************************************************************)
\* a regular file: its text, the 1-based offset of its first NUL byte
\* (0: none) and whether it can be opened for reading
TextFile(text) == [text |-> text, nul |-> 0, readable |-> TRUE]

exists(f, path) == path \in f.dirs \/ path \in DOMAIN f.files

isfile(f, path) == path \in DOMAIN f.files

isdir(f, path) == path \in f.dirs

\* os.listdir, as the set of the directory's children
listdir(f, dir) ==
    {p \in f.dirs \cup DOMAIN f.files : p # dir /\ dirname(p) = dir}

\* path and its ancestors
RECURSIVE Ancestors(_)
Ancestors(path) ==
    IF dirname(path) = path THEN {path}
    ELSE {path} \cup Ancestors(dirname(path))

(***************************************************************************)
(* clean_content.  The characters of a file's text are "\n", " ", "(",      *)
(* ")", ";", Backtick, "}", "=", the two-character run "${", a call name         *)
(* name ("alert"), the word "content", an artifact phrase ("download")     *)
(* and ordinary characters ("x", "y").                                      *)
(***************************************************************************)
\* the character U+0060, which a TLA+ string cannot hold
Backtick == "BACKTICK"

CallNames == {"alert", "setSaveStatus", "setFileError"}

Quotes == {Backtick, "'", "\""}

Whitespace == {" ", "\n", "\t"}

lines_to_remove ==
    { <<"Generated code">>, <<"IGNORE_WHEN_COPYING_START">>, <<"content_copy">>,
      <<"download">>, <<"Use code with caution.">>, <<"IGNORE_WHEN_COPYING_END">> }

Min(S) == CHOOSE m \in S : \A n \in S : m <= n

\* "." of a regular expression matches every character of s[a..b]
NoNewline(s, a, b) == \A t \in a..b : s[t] # "\n"

\* the ends k of  .*?}<tail>  started after the placeholder at j
BodyEnds(s, j, tail) ==
    {k \in (j + 1)..Len(s) :
        /\ s[k] = "}"
        /\ k + Len(tail) <= Len(s)
        /\ SubSeq(s, k + 1, k + Len(tail)) = tail
        /\ NoNewline(s, j + 1, k - 1)}

\* the placeholders j at which  .*?\${.*?}<tail>  started at from can match
Placeholders(s, from, tail) ==
    {j \in from..Len(s) :
        s[j] = "${" /\ NoNewline(s, from, j - 1) /\ BodyEnds(s, j, tail) # {}}

\* ([^BACKTICK'"].*?\${.*?})<tail> with the group's first character at p: the index
\* of the "}" that closes the lazy match, 0 when there is no match
GroupEnd(s, p, tail) ==
    IF p > Len(s) \/ s[p] \in Quotes THEN 0
    ELSE LET js == Placeholders(s, p + 1, tail) IN
         IF js = {} THEN 0 ELSE Min(BodyEnds(s, Min(js), tail))

\* pattern_func.sub: \1( BACKTICK \2 BACKTICK );: leftmost matches, left to right
RECURSIVE pattern_func_sub(_)
pattern_func_sub(s) ==
    IF s = <<>> THEN <<>>
    ELSE LET e == IF Len(s) >= 2 /\ s[1] \in CallNames /\ s[2] = "("
                  THEN GroupEnd(s, 3, <<")", ";">>) ELSE 0 IN
         IF e = 0 THEN <<Head(s)>> \o pattern_func_sub(Tail(s))
         ELSE <<s[1], "(", Backtick>> \o SubSeq(s, 3, e) \o <<Backtick, ")", ";">>
              \o pattern_func_sub(SubSeq(s, e + 3, Len(s)))

\* the length of the run of whitespace that starts at s[p]
RECURSIVE SpaceRun(_, _)
SpaceRun(s, p) ==
    IF p <= Len(s) /\ s[p] \in Whitespace THEN 1 + SpaceRun(s, p + 1) ELSE 0

\* (content\s*=\s*)(...); matched at s[1]: <<p, e>>, the group's first
\* character and its closing "}", <<0, 0>> when there is no match.  The
\* second \s* is greedy and gives characters back until the rest matches.
AssignMatch(s) ==
    IF s = <<>> \/ s[1] # "content" THEN <<0, 0>>
    ELSE LET eq == 2 + SpaceRun(s, 2) IN
         IF eq > Len(s) \/ s[eq] # "=" THEN <<0, 0>>
         ELSE LET ws == {w \in 0..SpaceRun(s, eq + 1) :
                           GroupEnd(s, eq + 1 + w, <<";">>) # 0} IN
              IF ws = {} THEN <<0, 0>>
              ELSE LET w == CHOOSE x \in ws : \A y \in ws : y <= x IN
                   <<eq + 1 + w, GroupEnd(s, eq + 1 + w, <<";">>)>>

\* pattern_assign.sub: \1 BACKTICK \2 BACKTICK ;
RECURSIVE pattern_assign_sub(_)
pattern_assign_sub(s) ==
    IF s = <<>> THEN <<>>
    ELSE LET m == AssignMatch(s) IN
         IF m[1] = 0 THEN <<Head(s)>> \o pattern_assign_sub(Tail(s))
         ELSE SubSeq(s, 1, m[1] - 1) \o <<Backtick>> \o SubSeq(s, m[1], m[2])
              \o <<Backtick, ";">> \o pattern_assign_sub(SubSeq(s, m[2] + 2, Len(s)))

\* str.splitlines: the pieces between newlines, without a last empty piece
splitlines(s) ==
    LET parts == split(s, "\n") IN
    IF Last(parts) = <<>> THEN Front(parts) ELSE parts

\* str.strip
strip(s) == rstrip(lstrip(s, Whitespace), Whitespace)

RECURSIVE SelectLines(_)
SelectLines(lines) ==
    IF lines = <<>> THEN <<>>
    ELSE IF strip(Head(lines)) \in lines_to_remove THEN SelectLines(Tail(lines))
    ELSE <<Head(lines)>> \o SelectLines(Tail(lines))

clean_content(content) ==
    join(SelectLines(splitlines(pattern_assign_sub(pattern_func_sub(content)))),
         <<"\n">>)

(***************************************************************************)
(* The container document.  The update file's text is a sequence of        *)
(* tokens: the markers <project> and </project>, prose, a tag that is not  *)
(* well formed, and complete <file> elements.                               *)
(***************************************************************************)
OpenTag == [tag |-> "open"]

CloseTag == [tag |-> "close"]

Prose == [tag |-> "text"]

BadTag == [tag |-> "bad"]

\* a <file> element: attrib is the record of its attributes, text is <<>>
\* (ElementTree's None) or <<t>>
FileElem(attrib, text) == [tag |-> "file", attrib |-> attrib, text |-> text]

\* an update file that does not exist
NoFile == <<[tag |-> "absent"]>>

\* str.find(marker) as a 1-based index, 0 for Python's -1
find(text, marker) ==
    IF \E i \in 1..Len(text) : text[i].tag = marker.tag
    THEN Min({i \in 1..Len(text) : text[i].tag = marker.tag}) ELSE 0

\* str.rfind(marker)
rfind(text, marker) ==
    IF \E i \in 1..Len(text) : text[i].tag = marker.tag
    THEN CHOOSE i \in 1..Len(text) :
            text[i].tag = marker.tag /\ \A j \in (i + 1)..Len(text) : text[j].tag # marker.tag
    ELSE 0

\* variant: the document starts at the last opening marker
xml_slice_from_last_open(text) ==
    SubSeq(text, rfind(text, OpenTag), rfind(text, CloseTag))

\* variant: the document ends at the first closing marker
xml_slice_to_first_close(text) ==
    SubSeq(text, find(text, OpenTag), find(text, CloseTag))

\* full_content[start_index : end_index + len(end_tag)]
xml_slice(text) == SubSeq(text, find(text, OpenTag), rfind(text, CloseTag))

\* the number of elements open after the first i tokens of x
RECURSIVE Depth(_, _)
Depth(x, i) ==
    IF i = 0 THEN 0
    ELSE Depth(x, i - 1)
         + (IF x[i].tag = "open" THEN 1 ELSE IF x[i].tag = "close" THEN -1 ELSE 0)

\* ET.fromstring raises ParseError unless x is one element and nothing else
ParseError(x) ==
    \/ x = <<>>
    \/ \E i \in 1..Len(x) : x[i].tag = "bad"
    \/ \E i \in 1..(Len(x) - 1) : Depth(x, i) <= 0
    \/ Depth(x, Len(x)) # 0

\* root.findall('file'): the root's direct children, in document order
RECURSIVE findall_file(_, _)
findall_file(x, i) ==
    IF i > Len(x) THEN <<>>
    ELSE IF x[i].tag = "file" /\ Depth(x, i) = 1
    THEN <<x[i]>> \o findall_file(x, i + 1)
    ELSE findall_file(x, i + 1)

\* file_element.get(key, default)
Get(e, key, default) == IF key \in DOMAIN e.attrib THEN e.attrib[key] ELSE default

(***************************************************************************)
(* Filesystem operations of the applier, and when they raise.               *)
(***************************************************************************)
Fails(flt, op, path) == <<op, path>> \in flt

makedirs(f, path) == [dirs |-> f.dirs \cup Ancestors(path), files |-> f.files]

makedirs_raises(f, flt, path) ==
    Fails(flt, "makedirs", path) \/ \E a \in Ancestors(path) : isfile(f, a)

\* open(path, 'w') raises: the target is a directory, or its parent is none
open_raises(f, flt, path) ==
    Fails(flt, "open", path) \/ isdir(f, path) \/ ~isdir(f, dirname(path))

write_file(f, path, text) ==
    [dirs |-> f.dirs,
     files |-> [p \in DOMAIN f.files \cup {path} |->
                   IF p = path THEN TextFile(text) ELSE f.files[p]]]

remove(f, path) ==
    [dirs |-> f.dirs, files |-> [p \in DOMAIN f.files \ {path} |-> f.files[p]]]

rmdir(f, path) == [dirs |-> f.dirs \ {path}, files |-> f.files]

\* the components of a normalized absolute path
Comps(path) == SelectSeq(split(path, "/"), LAMBDA c : c # <<>>)

RECURSIVE CommonLen(_, _)
CommonLen(a, b) ==
    IF a # <<>> /\ b # <<>> /\ Head(a) = Head(b)
    THEN 1 + CommonLen(Tail(a), Tail(b)) ELSE 0

\* os.path.relpath(path, start), both absolute and normalized
os_relpath(path, start) ==
    LET i == CommonLen(Comps(start), Comps(path))
        rel == [k \in 1..(Len(Comps(start)) - i) |-> DotDot]
               \o SubSeq(Comps(path), i + 1, Len(Comps(path)))
    IN IF rel = <<>> THEN <<".">> ELSE join(rel, <<"/">>)

(***************************************************************************)
(* update_project_from_xml: one iteration of its loop over the entries.     *)
(***************************************************************************)
Msg(kind, path) == [kind |-> kind, path |-> path]

Op(op, path, i) == [op |-> op, path |-> path, entry |-> i]

\* what one iteration does: the filesystem it leaves, what it prints, the
\* mutations it performed and what it adds to file_count
Outcome(f, printed, done, n) ==
    [fs |-> f, log |-> printed, ops |-> done, count |-> n, raised |-> FALSE]

\* an iteration that an exception leaves: it reaches the handler of lines
\* 149-150, which ends the run
Raised(f, printed, done) ==
    [fs |-> f, log |-> printed, ops |-> done, count |-> 0, raised |-> TRUE]

\* the check of line 109
security_check(full_path, project_root_abs) ==
    startswith(full_path, project_root_abs)

\* variant: the delete attribute is compared as it is written
is_delete_operation_exact(e) ==
    Get(e, "delete", <<"f", "a", "l", "s", "e">>) = <<"t", "r", "u", "e">>

\* lines 113: the delete attribute, compared in lower case
is_delete_operation(e) ==
    lower(Get(e, "delete", <<"f", "a", "l", "s", "e">>)) = <<"t", "r", "u", "e">>

\* variant: the emptied parent is removed even when it is the project root
delete_entry_any_parent(f, flt, root, sanitized_path, full_path, i) ==
    IF ~(exists(f, full_path) /\ isfile(f, full_path))
    THEN Outcome(f, <<Msg("skip_notfound", sanitized_path)>>, <<>>, 0)
    ELSE IF Fails(flt, "remove", full_path)
    THEN Outcome(f, <<Msg("error_delete", sanitized_path)>>, <<>>, 0)
    ELSE LET f1 == remove(f, full_path)
             parent_dir == dirname(full_path)
             deleted == Msg("deleted", sanitized_path) IN
         IF listdir(f1, parent_dir) = {}
         THEN IF Fails(flt, "rmdir", parent_dir)
              THEN Outcome(f1, <<deleted, Msg("error_delete", sanitized_path)>>,
                           <<Op("remove", full_path, i)>>, 0)
              ELSE Outcome(rmdir(f1, parent_dir),
                           <<deleted, Msg("removed_dir", os_relpath(parent_dir, root))>>,
                           <<Op("remove", full_path, i), Op("rmdir", parent_dir, i)>>, 0)
         ELSE Outcome(f1, <<deleted>>, <<Op("remove", full_path, i)>>, 0)

\* variant: the target is tested with os.path.exists alone, so that os.remove
\* is called on a directory and raises
delete_entry_exists_only(f, flt, root, sanitized_path, full_path, i) ==
    IF ~exists(f, full_path)
    THEN Outcome(f, <<Msg("skip_notfound", sanitized_path)>>, <<>>, 0)
    ELSE IF Fails(flt, "remove", full_path) \/ isdir(f, full_path)
    THEN Outcome(f, <<Msg("error_delete", sanitized_path)>>, <<>>, 0)
    ELSE LET f1 == remove(f, full_path)
             parent_dir == dirname(full_path)
             deleted == Msg("deleted", sanitized_path) IN
         IF listdir(f1, parent_dir) = {} /\ parent_dir # abspath(root)
         THEN IF Fails(flt, "rmdir", parent_dir)
              THEN Outcome(f1, <<deleted, Msg("error_delete", sanitized_path)>>,
                           <<Op("remove", full_path, i)>>, 0)
              ELSE Outcome(rmdir(f1, parent_dir),
                           <<deleted, Msg("removed_dir", os_relpath(parent_dir, root))>>,
                           <<Op("remove", full_path, i), Op("rmdir", parent_dir, i)>>, 0)
         ELSE Outcome(f1, <<deleted>>, <<Op("remove", full_path, i)>>, 0)

\* lines 116-127
delete_entry(f, flt, root, sanitized_path, full_path, i) ==
    IF ~(exists(f, full_path) /\ isfile(f, full_path))
    THEN Outcome(f, <<Msg("skip_notfound", sanitized_path)>>, <<>>, 0)
    ELSE IF Fails(flt, "remove", full_path)
    THEN Outcome(f, <<Msg("error_delete", sanitized_path)>>, <<>>, 0)
    ELSE LET f1 == remove(f, full_path)
             parent_dir == dirname(full_path)
             deleted == Msg("deleted", sanitized_path) IN
         IF listdir(f1, parent_dir) = {} /\ parent_dir # abspath(root)
         THEN IF Fails(flt, "rmdir", parent_dir)
              THEN Outcome(f1, <<deleted, Msg("error_delete", sanitized_path)>>,
                           <<Op("remove", full_path, i)>>, 0)
              ELSE Outcome(rmdir(f1, parent_dir),
                           <<deleted, Msg("removed_dir", os_relpath(parent_dir, root))>>,
                           <<Op("remove", full_path, i), Op("rmdir", parent_dir, i)>>, 0)
         ELSE Outcome(f1, <<deleted>>, <<Op("remove", full_path, i)>>, 0)

\* variant: os.makedirs is called outside the try block
write_entry_uncaught(f, flt, root, sanitized_path, full_path, content, i) ==
    LET parent_dir == dirname(full_path)
        missing == ~exists(f, parent_dir) IN
    IF missing /\ makedirs_raises(f, flt, parent_dir)
    THEN Raised(f, <<>>, <<>>)
    ELSE LET f1 == IF missing THEN makedirs(f, parent_dir) ELSE f
             printed == IF missing
                        THEN <<Msg("created_dir", os_relpath(parent_dir, root))>>
                        ELSE <<>>
             done == IF missing THEN <<Op("makedirs", parent_dir, i)>> ELSE <<>> IN
         IF open_raises(f1, flt, full_path) \/ Fails(flt, "write", full_path)
         THEN Outcome(f1, printed \o <<Msg("error_update", sanitized_path)>>, done, 0)
         ELSE Outcome(write_file(f1, full_path, content),
                      printed \o <<Msg("updated", sanitized_path)>>,
                      done \o <<Op("write", full_path, i)>>, 1)

\* variant: file_count is incremented before the file is opened
write_entry_count_first(f, flt, root, sanitized_path, full_path, content, i) ==
    LET parent_dir == dirname(full_path)
        missing == ~exists(f, parent_dir)
        failed == Msg("error_update", sanitized_path) IN
    IF missing /\ makedirs_raises(f, flt, parent_dir)
    THEN Outcome(f, <<failed>>, <<>>, 0)
    ELSE LET f1 == IF missing THEN makedirs(f, parent_dir) ELSE f
             printed == IF missing
                        THEN <<Msg("created_dir", os_relpath(parent_dir, root))>>
                        ELSE <<>>
             done == IF missing THEN <<Op("makedirs", parent_dir, i)>> ELSE <<>> IN
         IF open_raises(f1, flt, full_path)
         THEN Outcome(f1, printed \o <<failed>>, done, 1)
         ELSE IF Fails(flt, "write", full_path)
         THEN Outcome(write_file(f1, full_path, <<>>), printed \o <<failed>>,
                      done \o <<Op("truncate", full_path, i)>>, 1)
         ELSE Outcome(write_file(f1, full_path, content),
                      printed \o <<Msg("updated", sanitized_path)>>,
                      done \o <<Op("write", full_path, i)>>, 1)

\* variant: the file is opened for appending
write_entry_append(f, flt, root, sanitized_path, full_path, content, i) ==
    LET parent_dir == dirname(full_path)
        missing == ~exists(f, parent_dir)
        failed == Msg("error_update", sanitized_path) IN
    IF missing /\ makedirs_raises(f, flt, parent_dir)
    THEN Outcome(f, <<failed>>, <<>>, 0)
    ELSE LET f1 == IF missing THEN makedirs(f, parent_dir) ELSE f
             printed == IF missing
                        THEN <<Msg("created_dir", os_relpath(parent_dir, root))>>
                        ELSE <<>>
             done == IF missing THEN <<Op("makedirs", parent_dir, i)>> ELSE <<>>
             old == IF isfile(f1, full_path) THEN f1.files[full_path].text ELSE <<>> IN
         IF open_raises(f1, flt, full_path) \/ Fails(flt, "write", full_path)
         THEN Outcome(f1, printed \o <<failed>>, done, 0)
         ELSE Outcome(write_file(f1, full_path, old \o content),
                      printed \o <<Msg("updated", sanitized_path)>>,
                      done \o <<Op("write", full_path, i)>>, 1)

\* lines 130-143
write_entry(f, flt, root, sanitized_path, full_path, content, i) ==
    LET parent_dir == dirname(full_path)
        missing == ~exists(f, parent_dir)
        failed == Msg("error_update", sanitized_path) IN
    IF missing /\ makedirs_raises(f, flt, parent_dir)
    THEN Outcome(f, <<failed>>, <<>>, 0)
    ELSE LET f1 == IF missing THEN makedirs(f, parent_dir) ELSE f
             printed == IF missing
                        THEN <<Msg("created_dir", os_relpath(parent_dir, root))>>
                        ELSE <<>>
             done == IF missing THEN <<Op("makedirs", parent_dir, i)>> ELSE <<>> IN
         IF open_raises(f1, flt, full_path)
         THEN Outcome(f1, printed \o <<failed>>, done, 0)
         ELSE IF Fails(flt, "write", full_path)
         THEN Outcome(write_file(f1, full_path, <<>>), printed \o <<failed>>,
                      done \o <<Op("truncate", full_path, i)>>, 0)
         ELSE Outcome(write_file(f1, full_path, content),
                      printed \o <<Msg("updated", sanitized_path)>>,
                      done \o <<Op("write", full_path, i)>>, 1)

\* variant: the path attribute is not tested, and a missing one is read as ""
process_entry_path_unchecked(f, flt, root, e, i) ==
    LET relative_path == Get(e, "path", <<>>)
        sanitized_path == lstrip(relative_path, {"/", "\\"})
        full_path == abspath(path_join(root, sanitized_path))
        raw_content == IF e.text = <<>> THEN <<>> ELSE e.text[1] IN
    IF ~security_check(full_path, abspath(root))
    THEN Outcome(f, <<Msg("security", relative_path)>>, <<>>, 0)
    ELSE IF is_delete_operation(e)
    THEN delete_entry(f, flt, root, sanitized_path, full_path, i)
    ELSE write_entry(f, flt, root, sanitized_path, full_path,
                     clean_content(raw_content), i)

\* lines 96-143: the body of the loop for entry e, the i-th of the document
process_entry(f, flt, root, e, i) ==
    LET relative_path == Get(e, "path", <<>>)
        sanitized_path == lstrip(relative_path, {"/", "\\"})
        full_path == abspath(path_join(root, sanitized_path))
        raw_content == IF e.text = <<>> THEN <<>> ELSE e.text[1] IN
    IF relative_path = <<>>
    THEN Outcome(f, <<Msg("skip_nopath", <<>>)>>, <<>>, 0)
    ELSE IF ~security_check(full_path, abspath(root))
    THEN Outcome(f, <<Msg("security", relative_path)>>, <<>>, 0)
    ELSE IF is_delete_operation(e)
    THEN delete_entry(f, flt, root, sanitized_path, full_path, i)
    ELSE write_entry(f, flt, root, sanitized_path, full_path,
                     clean_content(raw_content), i)

(***************************************************************************)
(* update_project_from_xml as a state machine.                              *)
(***************************************************************************)
SnapshotVars == <<spec, pending, visited, xml_parts, output>>

\* lines 74-93: read the update file, cut the document out of it, parse it
Parse ==
    /\ pc = "start"
    /\ IF full_content = NoFile
       THEN /\ log' = Append(log, Msg("fatal_nofile", <<>>))
            /\ pc' = "fatal"
            /\ UNCHANGED entries
       ELSE IF find(full_content, OpenTag) = 0 \/ rfind(full_content, CloseTag) = 0
       THEN /\ log' = Append(log, Msg("fatal_noblock", <<>>))
            /\ pc' = "fatal"
            /\ UNCHANGED entries
       ELSE IF ParseError(xml_slice(full_content))
       THEN /\ log' = Append(log, Msg("fatal_malformed", <<>>))
            /\ pc' = "fatal"
            /\ UNCHANGED entries
       ELSE /\ entries' = findall_file(xml_slice(full_content), 1)
            /\ pc' = "loop"
            /\ UNCHANGED log
    /\ idx' = 0
    /\ file_count' = 0
    /\ UNCHANGED <<full_content, root_dir, fs, fsStart, fsPrev, ops, faults, runs>>
    /\ UNCHANGED SnapshotVars

\* lines 95-143: one iteration of the loop
ProcessEntry ==
    /\ pc = "loop"
    /\ idx < Len(entries)
    /\ LET r == process_entry(fs, faults, root_dir, entries[idx + 1], idx + 1) IN
       /\ fs' = r.fs
       /\ log' = IF r.raised
                 THEN log \o r.log \o <<Msg("fatal_unexpected", <<>>)>>
                 ELSE log \o r.log
       /\ ops' = ops \o r.ops
       /\ file_count' = file_count + r.count
       /\ pc' = IF r.raised THEN "fatal" ELSE pc
    /\ fsPrev' = fs
    /\ idx' = idx + 1
    /\ UNCHANGED <<full_content, root_dir, fsStart, entries, faults, runs>>
    /\ UNCHANGED SnapshotVars

\* line 145: the summary
Finish ==
    /\ pc = "loop"
    /\ idx = Len(entries)
    /\ log' = Append(log, Msg("success", <<>>))
    /\ pc' = "done"
    /\ UNCHANGED <<full_content, root_dir, fs, fsStart, fsPrev, entries, idx,
                   file_count, ops, faults, runs>>
    /\ UNCHANGED SnapshotVars

(***************************************************************************)
(* The inputs of the applier: the project root /w/p holding a and d/b, a    *)
(* sibling /w/pe whose name starts with the root's name, and update files   *)
(* built from the entries below.                                            *)
(***************************************************************************)
Root == <<"/", "w", "/", "p">>

True == <<"t", "r", "u", "e">>

InitFS ==
    [dirs |-> { <<"/">>, <<"/", "w">>, Root, Root \o <<"/", "d">> },
     files |-> [q \in {Root \o <<"/", "a">>, Root \o <<"/", "d", "/", "b">>}
                   |-> TextFile(<<"x">>)]]

WriteElem(path, text) == FileElem([path |-> path], <<text>>)

DeleteElem(path, value) == FileElem([path |-> path, delete |-> value], <<>>)

EntrySet ==
    { WriteElem(<<"a">>, <<"y", "\n">>),
      FileElem([path |-> <<"/", "d", "/", "e", "/", "c">>, delete |-> <<"y", "e", "s">>],
               <<>>),
      WriteElem(<<".", ".", "/", "p", "e", "/", "x">>, <<"x">>),
      WriteElem(<<".", ".", "/", "q", "/", "x">>, <<"x">>),
      WriteElem(<<".">>, <<"x">>),
      FileElem([delete |-> True], << <<"x">> >>),
      FileElem([path |-> <<>>], << <<"x">> >>),
      DeleteElem(<<"a">>, True),
      DeleteElem(<<"d", "/", "b">>, <<"T", "r", "u", "e">>),
      DeleteElem(<<"d", "/", "e", "/", "c">>, <<"T", "R", "U", "E">>),
      DeleteElem(<<"d">>, True),
      DeleteElem(<<".", ".", "/", "p", "e", "/", "x">>, True) }

SeqsUpTo(S, n) == UNION {[1..k -> S] : k \in 0..n}

\* a well-formed update file around the entries es
Wrap(es) == <<OpenTag>> \o es \o <<CloseTag>>

\* an entry that the update files below hold outside the markers only
Outside == WriteElem(<<"o">>, <<"x">>)

\* the update files that hold the entries es in another envelope
Envelopes(es) ==
    { es \o <<CloseTag>>,
      <<Outside>> \o Wrap(es) \o <<Prose, Outside>>,
      <<OpenTag>> \o es,
      <<Prose>> \o es,
      <<CloseTag>> \o es \o <<OpenTag>>,
      <<OpenTag, BadTag>> \o es \o <<CloseTag>>,
      <<Prose>> \o Wrap(es) \o <<Prose>>,
      Wrap(es) \o <<Prose>> \o Wrap(es),
      <<OpenTag, Prose>> \o Wrap(es) \o es \o <<CloseTag>> }

Docs ==
    {Wrap(es) : es \in SeqsUpTo(EntrySet, MaxEntries)}
        \cup UNION {Envelopes(es) : es \in SeqsUpTo(EntrySet, 1)}
        \cup {NoFile}

\* the environments in which one filesystem call raises OSError
FaultConfigs ==
    { {<<"open", Root \o <<"/", "a">> >>},
      {<<"write", Root \o <<"/", "a">> >>},
      {<<"makedirs", Root \o <<"/", "d", "/", "e">> >>},
      {<<"open", Root \o <<"/", "d", "/", "e", "/", "c">> >>},
      {<<"remove", Root \o <<"/", "d", "/", "b">> >>},
      {<<"rmdir", Root \o <<"/", "d">> >>} }

SnapshotIdle ==
    /\ spec = <<>>
    /\ pending = <<>>
    /\ visited = {}
    /\ xml_parts = <<>>
    /\ output = <<>>

Init ==
    /\ \/ full_content \in Docs /\ faults = {}
       \/ /\ full_content \in {Wrap(es) : es \in SeqsUpTo(EntrySet, MaxFaultEntries)}
          /\ faults \in FaultConfigs
    /\ root_dir = Root
    /\ fs = InitFS
    /\ fsStart = InitFS
    /\ fsPrev = InitFS
    /\ pc = "start"
    /\ entries = <<>>
    /\ idx = 0
    /\ file_count = 0
    /\ log = <<>>
    /\ ops = <<>>
    /\ runs = <<>>
    /\ SnapshotIdle

Next == Parse \/ ProcessEntry \/ Finish

Spec == Init /\ [][Next]_vars

(***************************************************************************)
(* The Ignore-Rule Set: pathspec's 'gitwildmatch' patterns.  A pattern line *)
(* is compiled to whether it includes or excludes, whether it is anchored   *)
(* to the start of the path, whether it matches directories only, and its   *)
(* segments.                                                                *)
(***************************************************************************)
OUTPUT_FILENAME == <<"project_output", ".txt">>

UPDATE_FILENAME == <<"update", ".txt">>

CUSTOM_IGNORE_FILENAME == <<".project_ignore">>

\* os.path.basename(__file__)
SCRIPT_FILENAME == <<"project_to_xml", ".py">>

GITIGNORE_FILENAME == <<".gitignore">>

\* GitWildMatchPattern.pattern_to_regex; null for a blank line or a comment
Compile(line) ==
    LET include == ~startswith(line, <<"!">>)
        body == IF include THEN line ELSE Tail(line)
        segs == split(body, "/")
        dir_only == Last(segs) = <<>>
        rooted == Head(segs) = <<>>
        single == Len(segs) = 1 \/ (Len(segs) = 2 /\ segs[2] = <<>>)
        kept == SelectSeq(segs, LAMBDA g : g # <<>>) IN
    IF line = <<>> \/ Head(line) = "#" \/ kept = <<>>
    THEN [null |-> TRUE, include |-> TRUE, anchored |-> TRUE, dir_only |-> FALSE,
          segs |-> <<>>]
    ELSE [null |-> FALSE, include |-> include, anchored |-> rooted \/ ~single,
          dir_only |-> dir_only, segs |-> kept]

\* a segment's glob against one path component: "*" is any run of characters
RECURSIVE GlobMatch(_, _)
GlobMatch(glob, name) ==
    IF glob = <<>> THEN name = <<>>
    ELSE IF Head(glob) = "*"
    THEN GlobMatch(Tail(glob), name)
         \/ (name # <<>> /\ GlobMatch(glob, Tail(name)))
    ELSE name # <<>> /\ Head(glob) = Head(name) /\ GlobMatch(Tail(glob), Tail(name))

\* util.normalize_file: a leading "/" is dropped
normalize_file(file) == IF startswith(file, <<"/">>) THEN Tail(file) ELSE file

\* the pattern's regular expression matches the normalized path: its segments
\* match consecutive components (the first ones when anchored), whatever
\* follows; a directory pattern needs a "/" after them
pattern_matches(pat, path) ==
    LET comps == split(path, "/")
        k == Len(pat.segs) IN
    /\ ~pat.null
    /\ \E o \in 0..(Len(comps) - k) :
          /\ pat.anchored => o = 0
          /\ \A i \in 1..k :
                comps[o + i] # <<>>
                /\ (IF pat.segs[i] = <<"*">> THEN TRUE
                    ELSE GlobMatch(pat.segs[i], comps[o + i]))
          /\ pat.dir_only => o + k < Len(comps)

\* PathSpec.match_file: the last pattern that matches decides
match_file(patterns, file) ==
    LET path == normalize_file(file)
        hits == {i \in 1..Len(patterns) : pattern_matches(patterns[i], path)} IN
    hits # {} /\ patterns[CHOOSE i \in hits : \A j \in hits : j <= i].include

\* f.readlines() of an ignore file, if it exists
readlines(f, path) ==
    IF exists(f, path) THEN splitlines(f.files[path].text) ELSE <<>>

BuiltinPatterns ==
    << <<".git", "/">>, SCRIPT_FILENAME, OUTPUT_FILENAME, UPDATE_FILENAME,
       CUSTOM_IGNORE_FILENAME >>

\* variant: the custom ignore file is read before the version-control one
all_patterns_custom_first(f, root) ==
    readlines(f, path_join(root, CUSTOM_IGNORE_FILENAME))
        \o readlines(f, path_join(root, GITIGNORE_FILENAME))
        \o BuiltinPatterns

\* variant: the built-in patterns come first
all_patterns_builtins_first(f, root) ==
    BuiltinPatterns
        \o readlines(f, path_join(root, GITIGNORE_FILENAME))
        \o readlines(f, path_join(root, CUSTOM_IGNORE_FILENAME))

\* lines 199-208: the pattern lines in order
all_patterns(f, root) ==
    readlines(f, path_join(root, GITIGNORE_FILENAME))
        \o readlines(f, path_join(root, CUSTOM_IGNORE_FILENAME))
        \o BuiltinPatterns

load_ignore_spec(f, root) ==
    [i \in 1..Len(all_patterns(f, root)) |-> Compile(all_patterns(f, root)[i])]

(***************************************************************************)
(* The Binary Detector.                                                     *)
(***************************************************************************)
chunk_size == 1024

\* variant: the whole file is read, not its first chunk
is_binary_whole_file(node) == ~node.readable \/ node.nul # 0

is_binary(node) == ~node.readable \/ (node.nul # 0 /\ node.nul <= chunk_size)

(***************************************************************************)
(* create_project_xml.                                                      *)
(***************************************************************************)
\* a set as a sequence, in the order the directory listing gives
RECURSIVE Listing(_)
Listing(S) ==
    IF S = {} THEN <<>>
    ELSE LET x == CHOOSE y \in S : TRUE IN <<x>> \o Listing(S \ {x})

\* variant: dirnames is left as os.walk gave it
kept_dirs_unpruned(f, patterns, root, dirpath) ==
    {d \in listdir(f, dirpath) : isdir(f, d)}

\* lines 160-168: the child directories os.walk is left to descend into
kept_dirs(f, patterns, root, dirpath) ==
    {d \in listdir(f, dirpath) :
        isdir(f, d) /\ ~match_file(patterns, os_relpath(d, root) \o <<"/">>)}

\* line 172: the test of a file against the ignore rules
ignored_file(patterns, root, file_path) == match_file(patterns, file_path)

\* line 182: the element written for a file; an empty CDATA section reads
\* back as an element without text
file_block(relative_path, content) ==
    FileElem([path |-> relative_path], IF content = <<>> THEN <<>> ELSE <<content>>)

\* lines 169-186: the entries for the files of one directory
RECURSIVE add_files(_, _, _, _)
add_files(f, patterns, root, filenames) ==
    IF filenames = <<>> THEN <<>>
    ELSE LET file_path == Head(filenames)
             rest == add_files(f, patterns, root, Tail(filenames)) IN
         IF ignored_file(patterns, root, file_path) \/ is_binary(f.files[file_path])
         THEN rest
         ELSE <<file_block(os_relpath(file_path, root), f.files[file_path].text)>>
              \o rest

\* HEADER_TEXT: prose, and an example document of three entries
HEADER_TEXT ==
    << Prose, OpenTag,
       FileElem([path |-> <<"/", "path", "/", "to", "/", "file1">>], << <<"x">> >>),
       FileElem([path |-> <<"/", "path", "/", "to", "/", "file2">>], << <<"x">> >>),
       FileElem([path |-> <<"/", "file", "/", "to", "/", "delete">>,
                 delete |-> <<"t", "r", "u", "e">>], <<>>),
       CloseTag, Prose >>

ApplierVars == <<full_content, fsStart, fsPrev, entries, idx, file_count, log, ops, faults>>

\* line 156: load the ignore rules; os.walk starts at the root
LoadSpec ==
    /\ pc = "create"
    /\ spec' = load_ignore_spec(fs, root_dir)
    /\ pending' = <<root_dir>>
    /\ pc' = "walk"
    /\ UNCHANGED <<root_dir, fs, visited, xml_parts, output, runs>>
    /\ UNCHANGED ApplierVars

\* lines 158-186: one iteration of the loop over os.walk, top down
WalkDir ==
    /\ pc = "walk"
    /\ pending # <<>>
    /\ LET dirpath == Head(pending)
           filenames == Listing({p \in listdir(fs, dirpath) : isfile(fs, p)}) IN
       /\ pending' = Listing(kept_dirs(fs, spec, root_dir, dirpath)) \o Tail(pending)
       /\ visited' = visited \cup {dirpath}
       /\ xml_parts' = xml_parts \o add_files(fs, spec, root_dir, filenames)
    /\ UNCHANGED <<root_dir, fs, pc, spec, output, runs>>
    /\ UNCHANGED ApplierVars

\* lines 187-196: write the snapshot file
WriteOutput ==
    /\ pc = "walk"
    /\ pending = <<>>
    /\ output' = HEADER_TEXT \o <<OpenTag>> \o xml_parts \o <<CloseTag>>
    /\ pc' = "created"
    /\ UNCHANGED <<root_dir, fs, spec, pending, visited, xml_parts, runs>>
    /\ UNCHANGED ApplierVars

(***************************************************************************)
(* Properties of the Patch Applier.                                         *)
(***************************************************************************)
\* the entry has a path attribute that is not empty
HasPath(e) == Get(e, "path", <<>>) # <<>>

\* where the entry's path leads: leading separators stripped, joined to the
\* root, "." and ".." resolved
Target(e) == abspath(path_join(root_dir, lstrip(Get(e, "path", <<>>), {"/", "\\"})))

\* the entry's target is neither the project root nor below it
LandsOutside(e) == HasPath(e) /\ ~Within(Target(e), abspath(root_dir))

\* the entry's target is below the project root
LandsInside(e) ==
    HasPath(e) /\ Within(Target(e), abspath(root_dir)) /\ Target(e) # abspath(root_dir)

Started == pc \in {"loop", "done"}

OpsOf(i) == {k \in 1..Len(ops) : ops[k].entry = i}

Printed(kind, path) == \E k \in 1..Len(log) : log[k] = Msg(kind, path)

Count(kind) == Cardinality({k \in 1..Len(log) : log[k].kind = kind})

\* C1 (as claimed): an entry whose path lands outside the project root
\* causes no filesystem mutation and is reported as a security skip.
C1_Containment ==
    Started =>
        \A i \in 1..idx :
            LandsOutside(entries[i]) =>
                /\ OpsOf(i) = {}
                /\ Printed("security", Get(entries[i], "path", <<>>))

\* C2 (as claimed): at the end of a run over a document of write entries,
\* every entry that lands inside the root was written or reported as an I/O
\* error, and there is exactly one security rejection per entry that lands
\* outside the root.
C2_PartialFailure ==
    pc = "done" /\ (\A i \in 1..Len(entries) : ~is_delete_operation(entries[i])) =>
        /\ \A i \in 1..Len(entries) :
              LandsInside(entries[i]) /\ ~is_delete_operation(entries[i]) =>
                  \/ \E k \in OpsOf(i) : ops[k].op = "write"
                  \/ Printed("error_update",
                             lstrip(Get(entries[i], "path", <<>>), {"/", "\\"}))
        /\ Count("security")
              = Cardinality({i \in 1..Len(entries) : LandsOutside(entries[i])})

\* the text has no opening marker, no closing marker, or what lies from the
\* first opening marker to the last closing marker is not one element
FatalInput(text) ==
    LET opens == {i \in 1..Len(text) : text[i].tag = "open"}
        closes == {i \in 1..Len(text) : text[i].tag = "close"} IN
    /\ text # NoFile
    /\ \/ opens = {}
       \/ closes = {}
       \/ ParseError(SubSeq(text, Min(opens), CHOOSE c \in closes : \A d \in closes : d <= c))

\* C3: a text without an opening marker, without a closing marker, or whose
\* markup does not parse, ends the run with one fatal diagnostic and the
\* filesystem unchanged, whatever entries the text holds.
C3_FatalInput ==
    pc # "start" /\ FatalInput(full_content) =>
        /\ pc = "fatal"
        /\ Len(log) = 1
        /\ log[1].kind \in {"fatal_noblock", "fatal_malformed"}
        /\ fs = fsStart
        /\ ops = <<>>

\* a text that holds an entry, has its markers and still does not parse
C3_Witness ==
    /\ pc = "fatal"
    /\ log = <<Msg("fatal_malformed", <<>>)>>
    /\ \E i \in 1..Len(full_content) : full_content[i].tag = "file"
    /\ fs = fsStart

\* the file the entry processed last removed, as a set (empty: none)
RemovedByLast ==
    {ops[k].path : k \in {j \in OpsOf(idx) : ops[j].op = "remove"}}

\* C4: when a delete entry removes a regular file inside the root, the file's
\* parent directory is removed if it is left empty, is not the root and rmdir
\* does not raise; no other directory is removed, in particular not the root,
\* not an ancestor of the parent, and not a parent that still has children.
C4_DeleteCleanup ==
    Started /\ idx >= 1 =>
        \A path \in RemovedByLast :
            Within(path, abspath(root_dir)) =>
                LET parent == dirname(path)
                    emptied == listdir(fsPrev, parent) = {path} IN
                /\ isfile(fsPrev, path) /\ ~exists(fs, path)
                /\ (emptied /\ parent # abspath(root_dir)
                        /\ ~Fails(faults, "rmdir", parent))
                      => fs.dirs = fsPrev.dirs \ {parent}
                /\ fsPrev.dirs \ fs.dirs \subseteq {parent}
                /\ fs.dirs \subseteq fsPrev.dirs
                /\ abspath(root_dir) \in fs.dirs
                /\ ~emptied => fs.dirs = fsPrev.dirs
                /\ DOMAIN fs.files = DOMAIN fsPrev.files \ {path}

\* the last entry deleted d/e/c: d/e is removed, and d, now empty, stays
C4_Witness ==
    /\ Started
    /\ RemovedByLast = {Root \o <<"/", "d", "/", "e", "/", "c">>}
    /\ ~exists(fs, Root \o <<"/", "d", "/", "e">>)
    /\ isdir(fs, Root \o <<"/", "d">>)
    /\ listdir(fs, Root \o <<"/", "d">>) = {}

\* the last entry deleted the only file left in the root: the root stays
C4_RootLeftEmpty ==
    /\ Started
    /\ RemovedByLast # {}
    /\ listdir(fs, Root) = {}
    /\ isdir(fs, Root)

\* one entry for each outcome an entry can have
OutcomeEntries ==
    { WriteElem(<<"a">>, <<"y", "\n">>),
      FileElem([path |-> <<"/", "d", "/", "e", "/", "c">>, delete |-> <<"y", "e", "s">>],
               <<>>),
      WriteElem(<<".", ".", "/", "q", "/", "x">>, <<"x">>),
      FileElem([delete |-> True], << <<"x">> >>),
      DeleteElem(<<"d", "/", "b">>, <<"T", "r", "u", "e">>),
      DeleteElem(<<"d">>, True) }

FairInit ==
    /\ Init
    /\ full_content \in {Wrap(es) : es \in SeqsUpTo(OutcomeEntries, MaxFaultEntries)}

\* the loop has an entry left: what makes ProcessEntry possible
CanProcess == pc = "loop" /\ idx < Len(entries)

\* the applier on these documents, with and without a failing filesystem
\* call.  The function is straight-line code on one thread, so a step that
\* can be taken is taken: weak fairness of each action, written out for
\* ProcessEntry from the condition under which it is possible
FairSpec ==
    /\ FairInit /\ [][Next]_vars
    /\ WF_vars(Parse) /\ WF_vars(Finish)
    /\ ([]<>(~CanProcess) \/ []<><<ProcessEntry>>_vars)

\* the path an entry is reported under
ReportPath(e) ==
    IF ~HasPath(e) THEN <<>>
    ELSE IF ~security_check(Target(e), abspath(root_dir)) THEN Get(e, "path", <<>>)
    ELSE lstrip(Get(e, "path", <<>>), {"/", "\\"})

\* the kinds of report an entry of this form can end in
ReportKinds(e) ==
    IF ~HasPath(e) THEN {"skip_nopath"}
    ELSE IF ~security_check(Target(e), abspath(root_dir)) THEN {"security"}
    ELSE IF is_delete_operation(e) THEN {"skip_notfound", "deleted", "error_delete"}
    ELSE {"updated", "error_update"}

\* the positions of the log that report an entry's outcome: every report
\* but directory notes and the error that follows a completed delete
Reports ==
    {k \in 1..Len(log) :
        \/ log[k].kind \in {"skip_nopath", "security", "skip_notfound", "deleted",
                            "updated", "error_update"}
        \/ /\ log[k].kind = "error_delete"
           /\ ~(k > 1 /\ log[k - 1] = Msg("deleted", log[k].path))}

\* the k-th smallest member of a set of numbers
Nth(S, k) == CHOOSE n \in S : Cardinality({m \in S : m <= n}) = k

\* every entry handled so far has been reported once, in document order
CoveredInOrder ==
    /\ entries = findall_file(xml_slice(full_content), 1)
    /\ idx <= Len(entries)
    /\ Cardinality(Reports) = idx
    /\ \A k \in 1..idx :
          /\ log[Nth(Reports, k)].path = ReportPath(entries[k])
          /\ log[Nth(Reports, k)].kind \in ReportKinds(entries[k])
    /\ \A k \in 1..Len(ops) : ops[k].entry \in 1..idx
    /\ \A j, k \in 1..Len(ops) : j <= k => ops[j].entry <= ops[k].entry

\* C11: a run whose document has parsed always reaches the summary, and
\* when it does every entry of the document has been handled and reported
\* once, in document order, whatever the outcome of each; the summary is
\* printed once, last.
C11_RunCompletion ==
    (pc = "loop") ~> (/\ pc = "done"
                      /\ idx = Len(entries)
                      /\ CoveredInOrder
                      /\ Last(log).kind = "success"
                      /\ Count("success") = 1)

\* a finished run whose first entry ended in an I/O error and whose second
\* entry was written
C11_Witness ==
    /\ pc = "done"
    /\ faults # {}
    /\ Len(entries) = 2
    /\ \E k \in 1..(Len(log) - 1) :
          log[k].kind \in {"error_update", "error_delete"}
              /\ \E j \in (k + 1)..Len(log) : log[j].kind = "updated"

\* the file write of entry i completed
WriteCompleted(i) == \E k \in OpsOf(i) : ops[k].op = "write"

\* entry e is a write entry that the loop takes as far as its write
IsWriteEntry(e) ==
    /\ HasPath(e)
    /\ security_check(Target(e), abspath(root_dir))
    /\ ~is_delete_operation(e)

\* C12: at every point of a run, and so at its end, the count is the number
\* of entries whose file write completed; each of them is a write entry that
\* passed the containment test and was reported as updated, so the count
\* never exceeds the number of write entries of the document.
C12_UpdatedCount ==
    Started =>
        /\ file_count = Cardinality({i \in 1..idx : WriteCompleted(i)})
        /\ file_count = Count("updated")
        /\ \A i \in 1..idx : WriteCompleted(i) => IsWriteEntry(entries[i])
        /\ file_count
              <= Cardinality({i \in 1..Len(entries) : ~is_delete_operation(entries[i])})

\* a finished run of two write entries: one raised an I/O error, one is
\* counted
C12_Witness ==
    /\ pc = "done"
    /\ Len(entries) = 2
    /\ \A i \in 1..2 : IsWriteEntry(entries[i])
    /\ Count("error_update") = 1
    /\ file_count = 1

\* C13: when the entry processed last is a delete entry whose target, in the
\* root, is absent or is not a regular file, the filesystem is as it was
\* before the entry, the entry is reported as a not-found skip and nothing
\* else, and the run has not ended in a failure.
C13_NotFoundDelete ==
    pc \in {"loop", "fatal"} /\ idx >= 1 =>
        LET e == entries[idx] IN
        (/\ HasPath(e)
         /\ Within(Target(e), abspath(root_dir))
         /\ is_delete_operation(e)
         /\ ~isfile(fsPrev, Target(e)))
        => /\ fs = fsPrev
           /\ OpsOf(idx) = {}
           /\ Last(log) = Msg("skip_notfound", ReportPath(e))
           /\ Cardinality(Reports) = idx
           /\ pc = "loop"

\* the entry processed last asked to delete d, which is a directory, after an
\* entry that asked to delete a file that is not there
C13_Witness ==
    /\ pc = "loop"
    /\ idx = 2
    /\ Target(entries[1]) = Root \o <<"/", "d", "/", "e", "/", "c">>
    /\ is_delete_operation(entries[1])
    /\ Target(entries[2]) = Root \o <<"/", "d">>
    /\ is_delete_operation(entries[2])
    /\ isdir(fs, Root \o <<"/", "d">>)
    /\ Count("skip_notfound") = 2

\* C15 (as claimed): an entry whose path resolves to the project root itself
\* is reported as a security skip, and nothing is done for it.
C15_StrictContainment ==
    Started =>
        \A i \in 1..idx :
            (HasPath(entries[i]) /\ Target(entries[i]) = abspath(root_dir)) =>
                /\ Printed("security", Get(entries[i], "path", <<>>))
                /\ ~Printed("error_update", ReportPath(entries[i]))
                /\ ~Printed("skip_notfound", ReportPath(entries[i]))

\* the positions of the opening and of the closing markers in the text
Opens == {i \in 1..Len(full_content) : full_content[i].tag = "open"}

Closes == {i \in 1..Len(full_content) : full_content[i].tag = "close"}

Max(S) == CHOOSE x \in S : \A y \in S : y <= x

\* C16: for a text that has both markers, the run goes on to the entries
\* exactly when the text from the first opening marker to the last closing
\* marker parses, and its entries are then the file elements of that stretch
\* and no element that stands before or after it, none of which is applied;
\* when the last closing marker precedes the first opening marker the run
\* ends fatally with the filesystem untouched.
C16_DocumentSpan ==
    (pc # "start" /\ Opens # {} /\ Closes # {}) =>
        LET first == Min(Opens)
            last == Max(Closes)
            span == SubSeq(full_content, first, last) IN
        /\ Started <=> ~ParseError(span)
        /\ Started =>
              /\ entries = findall_file(span, 1)
              /\ \A i \in 1..Len(full_content) :
                    (i < first \/ i > last) =>
                        \A k \in 1..Len(entries) : entries[k] # full_content[i]
              /\ (root_dir = Root /\ full_content[1] = Outside)
                    => ~exists(fs, path_join(Root, <<"o">>))
        /\ last < first => pc = "fatal" /\ fs = fsStart /\ ops = <<>>

\* a finished run over a text with an entry before the opening marker, one
\* after the closing marker and one between them, which was carried out
C16_Witness ==
    /\ pc = "done"
    /\ full_content[1] = Outside
    /\ Last(full_content) = Outside
    /\ Len(entries) = 1
    /\ ops # <<>>

\* the entry has a delete attribute that spells "true" in some mix of cases
DeleteRequested(e) ==
    /\ "delete" \in DOMAIN e.attrib
    /\ Len(e.attrib.delete) = 4
    /\ e.attrib.delete[1] \in {"t", "T"}
    /\ e.attrib.delete[2] \in {"r", "R"}
    /\ e.attrib.delete[3] \in {"u", "U"}
    /\ e.attrib.delete[4] \in {"e", "E"}

\* the text of the element, the empty text when it has none
ElementText(e) == IF e.text = <<>> THEN <<>> ELSE e.text[1]

\* C17: the entry processed last, when it has a path and passes the
\* containment test, was handled as a delete exactly when its delete
\* attribute spells "true" in some mix of cases: it then wrote and created
\* nothing; otherwise, attribute absent or of another value, it removed
\* nothing, and when it is reported as updated its target holds the cleaned
\* text of the element, the empty text for an element without text.
C17_OperationSelection ==
    pc \in {"loop", "fatal"} /\ idx >= 1 =>
        LET e == entries[idx]
            did == {ops[k].op : k \in OpsOf(idx)} IN
        (HasPath(e) /\ security_check(Target(e), abspath(root_dir))) =>
            IF DeleteRequested(e)
            THEN /\ Last(log).kind \in {"skip_notfound", "deleted", "removed_dir",
                                        "error_delete"}
                 /\ did \subseteq {"remove", "rmdir"}
            ELSE /\ Last(log).kind \in {"updated", "error_update"}
                 /\ did \subseteq {"makedirs", "truncate", "write"}
                 /\ Last(log).kind = "updated" =>
                       /\ isfile(fs, Target(e))
                       /\ fs.files[Target(e)].text = clean_content(ElementText(e))

\* an entry with delete="True" removed d/b, and the entry processed last,
\* with delete="yes" and no text, wrote the empty text to d/e/c
C17_Witness ==
    /\ pc = "loop"
    /\ idx = 2
    /\ Get(entries[1], "delete", <<>>) = <<"T", "r", "u", "e">>
    /\ \E k \in OpsOf(1) : ops[k].op = "remove"
    /\ Get(entries[2], "delete", <<>>) = <<"y", "e", "s">>
    /\ entries[2].text = <<>>
    /\ isfile(fs, Root \o <<"/", "d", "/", "e", "/", "c">>)
    /\ fs.files[Root \o <<"/", "d", "/", "e", "/", "c">>].text = <<>>

\* C18: when the entry processed last has no path attribute, or an empty
\* one, the filesystem is as it was before the entry, the entry is reported
\* as skipped for its missing path, the count is that of the writes completed
\* before it, and the run goes on; a finished run has handled every entry
\* and has one such report for each entry without a path.
C18_MissingPath ==
    /\ pc \in {"loop", "fatal"} /\ idx >= 1 /\ ~HasPath(entries[idx]) =>
          /\ fs = fsPrev
          /\ OpsOf(idx) = {}
          /\ Last(log) = Msg("skip_nopath", <<>>)
          /\ file_count = Cardinality({i \in 1..(idx - 1) : WriteCompleted(i)})
          /\ pc = "loop"
    /\ pc = "done" =>
          /\ idx = Len(entries)
          /\ Count("skip_nopath")
                = Cardinality({i \in 1..Len(entries) : ~HasPath(entries[i])})

\* a finished run: an entry without a path attribute, an entry with an empty
\* one, then an entry that was written
C18_Witness ==
    /\ pc = "done"
    /\ Len(entries) = 3
    /\ "path" \notin DOMAIN entries[1].attrib
    /\ Get(entries[2], "path", <<"x">>) = <<>>
    /\ WriteCompleted(3)
    /\ file_count = 1

\* C19 (as claimed): when the entry processed last ended in a reported I/O
\* error, the filesystem is as it was before that entry.
C19_NoTrace ==
    (pc \in {"loop", "fatal"} /\ idx >= 1
        /\ Last(log).kind \in {"error_update", "error_delete"})
    => fs = fsPrev

\* the entries of the document whose target, below the root, is path
EntriesFor(path) ==
    {i \in 1..Len(entries) : LandsInside(entries[i]) /\ Target(entries[i]) = path}

\* no entry of the run was reported with an I/O error
NoIOFailure == Count("error_update") = 0 /\ Count("error_delete") = 0

\* C20: at the end of a run without I/O failure, every path below the root
\* that entries of the document target is as the last of these entries left
\* it: a write entry leaves a regular file holding the cleaned text of the
\* element, a delete entry that found a regular file leaves nothing at the
\* path, whatever the entries before it and the entries for other paths
\* after it did.
C20_LastEntryWins ==
    (pc = "done" /\ NoIOFailure) =>
        \A i \in 1..Len(entries) :
            LET e == entries[i] IN
            (LandsInside(e) /\ i = Max(EntriesFor(Target(e)))) =>
                IF is_delete_operation(e)
                THEN (\E k \in OpsOf(i) : ops[k].op = "remove")
                        => ~exists(fs, Target(e))
                ELSE /\ isfile(fs, Target(e))
                     /\ fs.files[Target(e)].text = clean_content(ElementText(e))

\* a finished run that wrote d/e/c, creating d/e, and then deleted it: neither
\* d/e/c nor the directory d/e is left
C20_Witness ==
    /\ pc = "done"
    /\ NoIOFailure
    /\ Len(entries) = 2
    /\ EntriesFor(Root \o <<"/", "d", "/", "e", "/", "c">>) = {1, 2}
    /\ \E k \in OpsOf(1) : ops[k].op = "makedirs"
    /\ WriteCompleted(1)
    /\ \E k \in OpsOf(2) : ops[k].op = "remove"
    /\ ~exists(fs, Root \o <<"/", "d", "/", "e", "/", "c">>)
    /\ ~exists(fs, Root \o <<"/", "d", "/", "e">>)

(***************************************************************************)
(* The Content Cleaner applied repeatedly to a text.                        *)
(***************************************************************************)
Lexemes ==
    { <<"alert", "(">>, <<"content", " ", "=", " ">>, <<"x">>, <<"${", "y", "}">>,
      <<")", ";">>, <<";">>, <<Backtick>>, <<"\n">>, <<"download">>, <<" ">> }

RECURSIVE Concat(_)
Concat(parts) == IF parts = <<>> THEN <<>> ELSE Head(parts) \o Concat(Tail(parts))

CleanInputs == {Concat(ls) : ls \in SeqsUpTo(Lexemes, MaxLexemes)}

ApplierIdle ==
    /\ full_content = NoFile
    /\ fsStart = InitFS
    /\ fsPrev = InitFS
    /\ entries = <<>>
    /\ idx = 0
    /\ file_count = 0
    /\ log = <<>>
    /\ ops = <<>>
    /\ faults = {}

CleanInit ==
    /\ runs \in {<<x>> : x \in CleanInputs}
    /\ root_dir = Root
    /\ fs = InitFS
    /\ pc = "idle"
    /\ ApplierIdle
    /\ SnapshotIdle

\* content = clean_content(content), once more
Clean ==
    /\ runs # <<>>
    /\ Len(runs) < 3
    /\ runs' = Append(runs, clean_content(Last(runs)))
    /\ UNCHANGED <<full_content, root_dir, fs, fsStart, fsPrev, pc, entries, idx,
                   file_count, log, ops, faults>>
    /\ UNCHANGED SnapshotVars

CleanNext == Clean

CleanSpec == CleanInit /\ [][CleanNext]_vars

\* C5 (as claimed): cleaning a cleaned text changes nothing.
C5_Idempotent == Len(runs) >= 3 => runs[3] = runs[2]

(***************************************************************************)
(* The Snapshot Builder on a project tree, and the snapshot applied to an   *)
(* empty directory.  The tree lies at /w/p or at /b/p; its ignore files are *)
(* drawn from the pattern lines below.                                      *)
(***************************************************************************)
AltRoot == <<"/", "b", "/", "p">>

TargetDir == <<"/", "w", "/", "t">>

GitignoreLines ==
    { <<"*", ".log">>, <<"!", "keep", ".log">>, <<"src", "/", "gen", ".txt">>,
      <<"src", "/">>, <<"!", "deep", ".txt">>, <<"b", "/">> }

CustomLines == { <<"!", "*">>, <<"!", ".git", "/">> }

\* the text of an ignore file with these lines
RECURSIVE IgnoreText(_)
IgnoreText(lines) ==
    IF lines = <<>> THEN <<>> ELSE Head(lines) \o <<"\n">> \o IgnoreText(Tail(lines))

\* no file (<<>>) or a file with the lines ls (<<ls>>)
IgnoreFiles(lines, n) == {<<>>} \cup {<<ls>> : ls \in SeqsUpTo(lines, n)}

TreeFiles ==
    { <<"keep", ".log">>, <<"other", ".log">>, <<"notes", ".txt">>,
      <<"src", "/", "gen", ".txt">>, <<"src", "/", "sub", "/", "deep", ".txt">>,
      <<"bin", ".dat">>, <<"big", ".dat">>, <<"locked", ".txt">>,
      <<".git", "/", "config">>, UPDATE_FILENAME, OUTPUT_FILENAME, SCRIPT_FILENAME }

TreeNode(rel) ==
    CASE rel = <<"notes", ".txt">> -> TextFile(<<"y", "\n">>)
      [] rel = <<"src", "/", "gen", ".txt">> -> TextFile(<<>>)
      [] rel = <<"bin", ".dat">> -> [text |-> <<"x">>, nul |-> 5, readable |-> TRUE]
      [] rel = <<"big", ".dat">> -> [text |-> <<"x">>, nul |-> 2000, readable |-> TRUE]
      [] rel = <<"locked", ".txt">> -> [text |-> <<"x">>, nul |-> 0, readable |-> FALSE]
      [] OTHER -> TextFile(<<"x">>)

\* the tree at root, with the ignore files g and c
TreeFS(root, g, c) ==
    LET rels == TreeFiles
                \cup (IF g = <<>> THEN {} ELSE {GITIGNORE_FILENAME})
                \cup (IF c = <<>> THEN {} ELSE {CUSTOM_IGNORE_FILENAME})
        node(rel) == IF rel = GITIGNORE_FILENAME THEN TextFile(IgnoreText(g[1]))
                     ELSE IF rel = CUSTOM_IGNORE_FILENAME THEN TextFile(IgnoreText(c[1]))
                     ELSE TreeNode(rel) IN
    [dirs |-> { <<"/">>, <<"/", "w">>, TargetDir, dirname(root), root,
                root \o <<"/", "src">>, root \o <<"/", "src", "/", "sub">>,
                root \o <<"/", ".git">> },
     files |-> [q \in {root \o <<"/">> \o rel : rel \in rels}
                  |-> node(SubSeq(q, Len(root) + 2, Len(q)))]]

SnapInit ==
    /\ root_dir \in {Root, AltRoot}
    /\ \E g \in IgnoreFiles(GitignoreLines, MaxPatterns),
          c \in IgnoreFiles(CustomLines, MaxCustom) :
          fs = TreeFS(root_dir, g, c)
    /\ pc = "create"
    /\ runs = <<>>
    /\ ApplierIdle
    /\ SnapshotIdle

\* main(), --update: the snapshot file, or the document cut out of it, is
\* applied to the empty directory /w/t
ApplySnapshot ==
    /\ pc = "created"
    /\ \E whole \in BOOLEAN :
          full_content' = IF whole THEN output
                          ELSE SubSeq(output, Len(HEADER_TEXT) + 1, Len(output))
    /\ root_dir' = TargetDir
    /\ fsStart' = fs
    /\ fsPrev' = fs
    /\ pc' = "start"
    /\ UNCHANGED <<fs, entries, idx, file_count, log, ops, faults, runs>>
    /\ UNCHANGED SnapshotVars

SnapNext == LoadSpec \/ WalkDir \/ WriteOutput \/ ApplySnapshot \/ Parse \/ ProcessEntry \/ Finish

SnapSpec == SnapInit /\ [][SnapNext]_vars

(***************************************************************************)
(* Properties of the Snapshot Builder and of the round trip.                *)
(***************************************************************************)
\* the operation is create_project_xml, and its ignore rules are loaded
Walking == pc \in {"walk", "created"}

\* the root of the tree that was snapshotted
SnapshotRoot == CHOOSE r \in {Root, AltRoot} : isdir(fs, r)

InSnapshot(rel) == \E k \in 1..Len(xml_parts) : xml_parts[k].attrib.path = rel

\* the lines of an ignore file of the snapshotted tree, <<>> if there is none
LinesOf(name) ==
    IF exists(fs, path_join(SnapshotRoot, name))
    THEN splitlines(fs.files[path_join(SnapshotRoot, name)].text) ELSE <<>>

\* the files of the directories the walk has listed
ListedFiles == {q \in DOMAIN fs.files : dirname(q) \in visited}

\* the round trip has run to its end
RoundTripOver == root_dir = TargetDir /\ pc \in {"done", "fatal"}

\* the repair rules and the artifact-line rule leave the text as it is
CleanerRulesFix(text) ==
    /\ pattern_assign_sub(pattern_func_sub(text)) = text
    /\ SelectLines(splitlines(text)) = splitlines(text)

\* C6 (as claimed): the snapshot of a tree whose files the cleaner's rules
\* leave alone, applied to an empty directory, yields exactly the snapshot's
\* paths, each with the content of the original file.
C6_RoundTrip ==
    (RoundTripOver
        /\ \A k \in 1..Len(xml_parts) :
              CleanerRulesFix(
                  fs.files[path_join(SnapshotRoot, xml_parts[k].attrib.path)].text))
    => /\ {q \in DOMAIN fs.files : Within(q, TargetDir)}
            = {path_join(TargetDir, xml_parts[k].attrib.path) : k \in 1..Len(xml_parts)}
       /\ \A k \in 1..Len(xml_parts) :
             fs.files[path_join(TargetDir, xml_parts[k].attrib.path)].text
                = fs.files[path_join(SnapshotRoot, xml_parts[k].attrib.path)].text

\* C7: a directory that the ignore rules match, tested by its root-relative
\* path with a "/" appended, is never listed, and neither it nor anything
\* below it is listed or has an entry in the snapshot.
C7_DirectoryPruning ==
    Walking =>
        \A d \in fs.dirs :
            (Within(d, root_dir) /\ d # root_dir
                /\ match_file(spec, os_relpath(d, root_dir) \o <<"/">>))
            => /\ \A v \in visited : ~Within(v, d)
               /\ \A k \in 1..Len(xml_parts) :
                     ~Within(path_join(root_dir, xml_parts[k].attrib.path), d)

\* src is pruned although a later negation rule matches src/sub/deep.txt
C7_Witness ==
    /\ pc = "created"
    /\ LinesOf(GITIGNORE_FILENAME) = << <<"src", "/">>, <<"!", "deep", ".txt">> >>
    /\ match_file(spec, <<"src", "/">>)
    /\ ~match_file(spec, <<"src", "/", "sub", "/", "deep", ".txt">>)
    /\ root_dir \o <<"/", "src">> \notin visited
    /\ ~InSnapshot(<<"src", "/", "sub", "/", "deep", ".txt">>)
    /\ InSnapshot(<<"notes", ".txt">>)

\* C8 (as claimed): once the walk is over, a listed text file is in the
\* snapshot exactly when the ignore rules do not match its root-relative
\* path.
C8_RootRelative ==
    (Walking /\ pending = <<>>) =>
        \A q \in ListedFiles :
            ~is_binary(fs.files[q]) =>
                (InSnapshot(os_relpath(q, root_dir))
                    <=> ~match_file(spec, os_relpath(q, root_dir)))

\* the lines of the two ignore files and the built-in patterns, in the order
\* claimed
ClaimedOrder ==
    LinesOf(GITIGNORE_FILENAME) \o LinesOf(CUSTOM_IGNORE_FILENAME) \o BuiltinPatterns

\* the last line of lines that matches the path excludes it
LastMatchExcludes(lines, path) ==
    LET hits == {i \in 1..Len(lines) :
                    pattern_matches(Compile(lines[i]), normalize_file(path))} IN
    hits # {} /\ Compile(lines[CHOOSE i \in hits : \A j \in hits : j <= i]).include

\* C9: once the walk is over, a listed text file is in the snapshot unless
\* the last pattern that matches it, in the order version-control ignore
\* file, custom ignore file, built-ins, excludes it; with the patterns
\* *.log and !keep.log, keep.log is in the snapshot and other.log is not.
C9_LastMatchWins ==
    (Walking /\ pending = <<>>) =>
        /\ \A q \in ListedFiles :
              ~is_binary(fs.files[q]) =>
                  (InSnapshot(os_relpath(q, root_dir))
                      <=> ~LastMatchExcludes(ClaimedOrder, q))
        /\ (LinesOf(GITIGNORE_FILENAME) = << <<"*", ".log">>, <<"!", "keep", ".log">> >>
                /\ LinesOf(CUSTOM_IGNORE_FILENAME) = <<>>)
              => (InSnapshot(<<"keep", ".log">>) /\ ~InSnapshot(<<"other", ".log">>))

C9_Witness ==
    /\ pc = "created"
    /\ LinesOf(GITIGNORE_FILENAME) = << <<"*", ".log">>, <<"!", "keep", ".log">> >>
    /\ InSnapshot(<<"keep", ".log">>)
    /\ ~InSnapshot(<<"other", ".log">>)

\* C10: the snapshot never has an entry for the script, the snapshot file,
\* the update file, the custom ignore file or anything below .git, whatever
\* the two ignore files hold.
C10_NoSelfIngestion ==
    \A k \in 1..Len(xml_parts) :
        /\ xml_parts[k].attrib.path
              \notin {SCRIPT_FILENAME, OUTPUT_FILENAME, UPDATE_FILENAME,
                      CUSTOM_IGNORE_FILENAME}
        /\ ~startswith(xml_parts[k].attrib.path, <<".git", "/">>)

\* the custom ignore file re-includes everything, and the walk is over
C10_Witness ==
    /\ pc = "created"
    /\ <<"!", "*">> = Last(<<<<>>>> \o LinesOf(CUSTOM_IGNORE_FILENAME))
    /\ exists(fs, path_join(root_dir, UPDATE_FILENAME))
    /\ exists(fs, path_join(root_dir, CUSTOM_IGNORE_FILENAME))
    /\ InSnapshot(<<"keep", ".log">>)
    /\ ~InSnapshot(UPDATE_FILENAME)

\* the file has a NUL byte among its first 1024 bytes
NulInFirstChunk(node) == node.nul \in 1..1024

\* C14: a file that has a NUL byte among its first 1024 bytes, or that cannot
\* be opened, never has an entry in the snapshot; once the walk is over, a
\* listed file that can be opened and has no NUL byte among its first 1024
\* bytes has an entry unless the ignore rules exclude it, also when it is
\* empty or has a NUL byte further on.
C14_BinaryExclusion ==
    Walking =>
        /\ \A q \in DOMAIN fs.files :
              (Within(q, root_dir)
                  /\ (NulInFirstChunk(fs.files[q]) \/ ~fs.files[q].readable))
              => ~InSnapshot(os_relpath(q, root_dir))
        /\ pending = <<>> =>
              \A q \in ListedFiles :
                  (/\ fs.files[q].readable
                   /\ ~NulInFirstChunk(fs.files[q])
                   /\ ~ignored_file(spec, root_dir, q))
                  => InSnapshot(os_relpath(q, root_dir))

\* the snapshot is written: the empty file and the file with a NUL byte at
\* offset 2000 are in it, the file with a NUL byte at offset 5 and the file
\* that cannot be opened are not
C14_Witness ==
    /\ pc = "created"
    /\ InSnapshot(<<"src", "/", "gen", ".txt">>)
    /\ fs.files[path_join(root_dir, <<"src", "/", "gen", ".txt">>)].text = <<>>
    /\ InSnapshot(<<"big", ".dat">>)
    /\ ~InSnapshot(<<"bin", ".dat">>)
    /\ ~InSnapshot(<<"locked", ".txt">>)

====
